---------------------------- MODULE Spec2Model ----------------------------
(***************************************************************************)
(* A model of package tai64 (tai64n.go): the four parse/decode entry       *)
(* points and EpochTime, the leap-second aware conversion from TAI seconds *)
(* to a time.Time.                                                         *)
(*                                                                         *)
(* TLC's integers are 32 bits wide, the program's are 64.  A 64-bit value  *)
(* (and every intermediate mathematical integer) is therefore kept as a    *)
(* triple <<a, b, c>> that stands for a * 2^48 + b * 2^24 + c with         *)
(* 0 <= b, c < 2^24 and a any integer.  The representation is unique, so   *)
(* equality of triples is equality of the integers.                        *)
(***************************************************************************)
EXTENDS Integers, Sequences, FiniteSets, TLC

VARIABLES
    s,        \* the text handed to ParseTai64 / ParseTai64n (a sequence of bytes)
    b,        \* the bytes handed to DecodeTai64 / DecodeTai64n
    rPT64,    \* what ParseTai64(s) returned, or NoCall
    rPT64n,   \* what ParseTai64n(s) returned, or NoCall
    rDT64,    \* what DecodeTai64(b) returned, or NoCall
    rDT64n,   \* what DecodeTai64n(b) returned, or NoCall
    secsA,    \* first secs argument handed to EpochTime
    secsB,    \* second secs argument handed to EpochTime
    nsecs,    \* nsecs argument handed to EpochTime (both calls)
    rA,       \* what EpochTime(secsA, nsecs) returned, or NoCall
    rB        \* what EpochTime(secsB, nsecs) returned, or NoCall

vars == <<s, b, rPT64, rPT64n, rDT64, rDT64n, secsA, secsB, nsecs, rA, rB>>

---------------------------------------------------------------------------
(* 64-bit arithmetic on triples of 24-bit limbs.                           *)

Limb == 2^24

Norm(a, m, c) ==
    LET c1 == c % Limb
        k1 == (c - c1) \div Limb
        m0 == m + k1
        m1 == m0 % Limb
        k2 == (m0 - m1) \div Limb
    IN  <<a + k2, m1, c1>>

\* a TLC integer as a triple
FromInt(n) == Norm(0, 0, n)

Zero == <<0, 0, 0>>

Add(x, y) == Norm(x[1] + y[1], x[2] + y[2], x[3] + y[3])

Sub(x, y) == Norm(x[1] - y[1], x[2] - y[2], x[3] - y[3])

Neg(x) == Sub(Zero, x)

Less(x, y) ==
    \/ x[1] < y[1]
    \/ x[1] = y[1] /\ x[2] < y[2]
    \/ x[1] = y[1] /\ x[2] = y[2] /\ x[3] < y[3]

Leq(x, y) == x = y \/ Less(x, y)

\* conversion to uint64: the value modulo 2^64
ToUint64(x) == <<x[1] % 2^16, x[2], x[3]>>

\* conversion to int64: the value modulo 2^64, read as two's complement
ToInt64(x) == <<((x[1] + 2^15) % 2^16) - 2^15, x[2], x[3]>>

\* x \div d and x % d for x >= 0 and 0 < d <= 2^19: long division, twelve bits
\* of the dividend at a time
DivSmall(x, d) ==
    LET r0 == x[1] % d
        t1 == r0 * 4096 + (x[2] \div 4096)
        t2 == (t1 % d) * 4096 + (x[2] % 4096)
        t3 == (t2 % d) * 4096 + (x[3] \div 4096)
        t4 == (t3 % d) * 4096 + (x[3] % 4096)
    IN  [q |-> <<x[1] \div d, (t1 \div d) * 4096 + (t2 \div d),
                 (t3 \div d) * 4096 + (t4 \div d)>>,
         r |-> t4 % d]

\* x \div 10^9 and x % 10^9 for x >= 0, as three divisions by 1000
DivBillion(x) ==
    LET d1 == DivSmall(x, 1000)
        d2 == DivSmall(d1.q, 1000)
        d3 == DivSmall(d2.q, 1000)
    IN  [q |-> d3.q, r |-> d3.r * 1000000 + d2.r * 1000 + d1.r]

\* Go's x / 1e9 and x % 1e9: the quotient truncated toward zero, the remainder with
\* the sign of the dividend
DivTruncBillion(x) ==
    IF Less(x, Zero)
    THEN LET p == DivBillion(Neg(x)) IN [q |-> Neg(p.q), r |-> -p.r]
    ELSE DivBillion(x)

---------------------------------------------------------------------------
(* package time: the part of time.Time that EpochTime and its callers use. *)

\* time.unixToInternal = 62135596800, the seconds from year 1 to 1970
unixToInternal == <<0, 3703, 9565952>>

\* time.Time{}: the zero value
ZeroTime == [wall |-> 0, ext |-> Zero, loc |-> "nil"]

\* time.Unix(sec, nsec): nsec is brought into [0, 1e9), the carry going to sec;
\* the Time holds sec + unixToInternal in 64 bits
Unix(sec, nsec) ==
    LET out  == Less(nsec, Zero) \/ ~Less(nsec, FromInt(1000000000))
        d    == DivTruncBillion(nsec)
        sec1 == IF out THEN ToInt64(Add(sec, d.q)) ELSE sec
        ns1  == IF out THEN d.r ELSE nsec[2] * Limb + nsec[3]
        sec2 == IF ns1 < 0 THEN ToInt64(Sub(sec1, FromInt(1))) ELSE sec1
        ns2  == IF ns1 < 0 THEN ns1 + 1000000000 ELSE ns1
    IN  [wall |-> ns2, ext |-> ToInt64(Add(sec2, unixToInternal)), loc |-> "Local"]

\* Time.IsZero
IsZero(t) == t.ext = Zero /\ t.wall = 0

\* Time.Unix: the seconds since 1970, in 64 bits
UnixSeconds(t) == ToInt64(Sub(t.ext, unixToInternal))

---------------------------------------------------------------------------
(* tai64n.go                                                               *)

leapSeconds == <<
    1341100834, 1230768033, 1136073632, 915148831, 867715230, 820454429,
    773020828, 741484827, 709948826, 662688025, 631152024, 567993623,
    489024022, 425865621, 394329620, 362793619, 315532818, 283996817,
    252460816, 220924815, 189302414, 157766413, 126230412, 94694411,
    78796810, 63072009 >>

\* ScanLeapSeconds with secs >= l for secs > l
RECURSIVE ScanLeapSecondsAtOrAfter(_, _, _)
ScanLeapSecondsAtOrAfter(secs, i, offset) ==
    IF i > Len(leapSeconds) THEN offset
    ELSE IF Leq(FromInt(leapSeconds[i]), secs) THEN offset - 1
    ELSE ScanLeapSecondsAtOrAfter(secs, i + 1, offset - 1)

\* ScanLeapSeconds with the test before the decrement
RECURSIVE ScanLeapSecondsTestFirst(_, _, _)
ScanLeapSecondsTestFirst(secs, i, offset) ==
    IF i > Len(leapSeconds) THEN offset
    ELSE IF Less(FromInt(leapSeconds[i]), secs) THEN offset
    ELSE ScanLeapSecondsTestFirst(secs, i + 1, offset - 1)

\* the for-range loop of EpochTime from index i on: offset-- and break at the
\* first entry below secs
RECURSIVE ScanLeapSeconds(_, _, _)
ScanLeapSeconds(secs, i, offset) ==
    IF i > Len(leapSeconds) THEN offset
    ELSE IF Less(FromInt(leapSeconds[i]), secs) THEN offset - 1
    ELSE ScanLeapSeconds(secs, i + 1, offset - 1)

\* EpochOffset starting one too high
EpochOffsetOneMore(secs) == ScanLeapSeconds(secs, 1, Len(leapSeconds) + 11)

\* the value of offset when EpochTime returns
EpochOffset(secs) == ScanLeapSeconds(secs, 1, Len(leapSeconds) + 10)

\* EpochTime adding the offset
EpochTimeAddsOffset(secs, nsec) ==
    Unix(ToInt64(Add(secs, FromInt(EpochOffset(secs)))), nsec)

EpochTime(secs, nsec) ==
    Unix(ToInt64(Sub(secs, FromInt(EpochOffset(secs)))), nsec)

\* the error value of a failed parse or decode, and Go's nil
parseError == "Parse Error"

nil == "nil"

Two62 == <<2^14, 0, 0>>

Two63 == <<2^15, 0, 0>>

\* Bias with the wrong constant: 1<<63 for 1<<62
BiasWrongShift(sec) == ToInt64(ToUint64(Sub(sec, Two63)))

\* int64(sec - (1<<62)): the subtraction in uint64, the result read as int64
Bias(sec) == ToInt64(ToUint64(Sub(sec, Two62)))

\* TooBig with the range check left out
TooBigNever(sec) == FALSE

\* sec > 1<<63
TooBig(sec) == Less(Two63, sec)

\* Failure returning the Unix epoch, time.Unix(0, 0), for time.Time{}
FailureUnixEpoch == [t |-> Unix(Zero, Zero), err |-> parseError]

\* return time.Time{}, parseError
Failure == [t |-> ZeroTime, err |-> parseError]

\* lower without the case folding
lowerIdentity(c) == c

\* strconv: lower(c) is c | ('x' - 'X')
lower(c) == IF (c \div 32) % 2 = 0 THEN c + 32 ELSE c

\* strconv.ParseUint's maxVal: 1<<bitSize - 1
MaxVal(bitSize) ==
    IF bitSize = 64 THEN <<2^16 - 1, Limb - 1, Limb - 1>>
    ELSE <<0, 2^(bitSize - 24) - 1, Limb - 1>>

\* strconv.ParseUint's cutoff for base 16: maxUint64/16 + 1
Cutoff16 == <<2^12, 0, 0>>

\* the digit loop of strconv.ParseUint(str, 16, bitSize) from byte i on
RECURSIVE ParseUintFrom(_, _, _, _)
ParseUintFrom(str, i, n, bitSize) ==
    IF i > Len(str) THEN [n |-> n, err |-> nil]
    ELSE LET c        == str[i]
             isDigit  == 48 <= c /\ c <= 57
             isLetter == 97 <= lower(c) /\ lower(c) <= 122
             d        == IF isDigit THEN c - 48 ELSE lower(c) - 97 + 10
             n16      == ToUint64(Norm(16 * n[1], 16 * n[2], 16 * n[3]))
             n1       == ToUint64(Add(n16, FromInt(d)))
         IN  IF ~isDigit /\ ~isLetter THEN [n |-> Zero, err |-> "syntax"]
             ELSE IF d >= 16 THEN [n |-> Zero, err |-> "syntax"]
             ELSE IF ~Less(n, Cutoff16) THEN [n |-> MaxVal(bitSize), err |-> "range"]
             ELSE IF Less(n1, n16) \/ Less(MaxVal(bitSize), n1)
                  THEN [n |-> MaxVal(bitSize), err |-> "range"]
             ELSE ParseUintFrom(str, i + 1, n1, bitSize)

\* strconv.ParseUint(str, 16, bitSize)
ParseUint(str, bitSize) ==
    IF str = <<>> THEN [n |-> Zero, err |-> "syntax"]
    ELSE ParseUintFrom(str, 1, Zero, bitSize)

\* binary.BigEndian.Uint64 of eight bytes
BigEndianUint64(x) ==
    << x[1] * 256 + x[2],
       x[3] * 65536 + x[4] * 256 + x[5],
       x[6] * 65536 + x[7] * 256 + x[8] >>

\* binary.BigEndian.Uint32 of four bytes
BigEndianUint32(x) == <<0, x[1], x[2] * 65536 + x[3] * 256 + x[4]>>

ParseTai64(str) ==
    IF Len(str) # 17 \/ str[1] # 64 THEN Failure
    ELSE LET sec == ParseUint(SubSeq(str, 2, Len(str)), 64)
         IN  IF sec.err # nil THEN Failure
             ELSE IF TooBig(sec.n) THEN Failure
             ELSE [t |-> EpochTime(Bias(sec.n), Zero), err |-> nil]

\* ParseTai64n without the check of the nanosecond field's error
ParseTai64nUncheckedNanos(str) ==
    IF Len(str) # 25 \/ str[1] # 64 THEN Failure
    ELSE LET sec  == ParseUint(SubSeq(str, 2, 17), 64)
             nsec == ParseUint(SubSeq(str, 18, 25), 32)
         IN  IF sec.err # nil THEN Failure
             ELSE IF TooBig(sec.n) THEN Failure
             ELSE [t |-> EpochTime(Bias(sec.n), nsec.n), err |-> nil]

ParseTai64n(str) ==
    IF Len(str) # 25 \/ str[1] # 64 THEN Failure
    ELSE LET sec  == ParseUint(SubSeq(str, 2, 17), 64)
             nsec == ParseUint(SubSeq(str, 18, 25), 32)
         IN  IF sec.err # nil THEN Failure
             ELSE IF nsec.err # nil THEN Failure
             ELSE IF TooBig(sec.n) THEN Failure
             ELSE [t |-> EpochTime(Bias(sec.n), nsec.n), err |-> nil]

DecodeTai64(x) ==
    IF Len(x) # 8 THEN Failure
    ELSE LET sec == BigEndianUint64(x)
         IN  IF TooBig(sec) THEN Failure
             ELSE [t |-> EpochTime(Bias(sec), Zero), err |-> nil]

DecodeTai64n(x) ==
    IF Len(x) # 12 THEN Failure
    ELSE LET sec  == BigEndianUint64(SubSeq(x, 1, 8))
             nsec == BigEndianUint32(SubSeq(x, 9, 12))
         IN  IF TooBig(sec) THEN Failure
             ELSE [t |-> EpochTime(Bias(sec), nsec), err |-> nil]

---------------------------------------------------------------------------
(* The callers: the inputs they hand over, and one action per entry point. *)

\* a result slot before its call
NoCall == [t |-> ZeroTime, err |-> "not called"]

\* how far around each boundary value the seconds inputs reach
MaxDelta == 1

\* the largest distance from secsA at which secsB is drawn next to it
MaxGap == 2

Around(x) == {Add(x, FromInt(d)) : d \in -MaxDelta..MaxDelta}

MinInt64 == <<-(2^15), 0, 0>>

MaxInt64 == <<2^15 - 1, Limb - 1, Limb - 1>>

MaxUint64 == <<2^16 - 1, Limb - 1, Limb - 1>>

\* the TAI64 label whose time is the zero time.Time: 2^62 - 62135596790
ZeroLabel == <<16383, 16773512, 7211274>>

\* the labels of tai64n_test.go, 2^62 + 10, and a label above 2^63
LabelPoints ==
    { Add(Two62, FromInt(10)),
      <<16384, 55, 12720575>>,     \* 4000000037c219bf
      <<16384, 82, 13000277>>,     \* 4000000052c65e55
      <<16384, 67, 12140806>>,     \* 4000000043b94106
      <<16384, 42, 2829357>>,      \* 400000002a2b2c2d
      <<61440, 55, 12720575>> }    \* f000000037c219bf

\* the seconds fields the callers encode
Labels ==
    LET near == UNION { Around(x) : x \in
                          { Zero, Two62, Two63, MaxUint64, ZeroLabel,
                            Add(Two62, FromInt(leapSeconds[1])),
                            Add(Two62, FromInt(leapSeconds[Len(leapSeconds)])) } }
    IN  {x \in near : Leq(Zero, x) /\ Leq(x, MaxUint64)} \cup LabelPoints

\* the nanosecond fields the callers encode
NanoFields ==
    { Zero, FromInt(1), FromInt(787492500), FromInt(999999999),
      FromInt(1000000000), <<0, 238, 7022592>>, <<0, 255, Limb - 1>> }

\* k hexadecimal digits of n (0 <= n < 16^k) as ASCII bytes; upper is 0 for
\* lower-case letters, 1 for upper-case, 2 for both
RECURSIVE HexText(_, _, _)
HexText(n, k, upper) ==
    IF k = 0 THEN <<>>
    ELSE LET d == n % 16
             c == IF d < 10 THEN 48 + d
                  ELSE (IF upper = 1 \/ (upper = 2 /\ k % 2 = 0) THEN 55 ELSE 87) + d
         IN  Append(HexText(n \div 16, k - 1, upper), c)

\* the external hex form of a label: '@' and sixteen digits
LabelText(x, upper) ==
    <<64>> \o HexText(x[1], 4, upper) \o HexText(x[2], 6, upper) \o HexText(x[3], 6, upper)

\* eight hex digits of a nanosecond field
NanoText(x, upper) == HexText(x[2], 2, upper) \o HexText(x[3], 6, upper)

\* the external binary form of a label: eight bytes, big-endian
LabelBytes(x) ==
    << x[1] \div 256, x[1] % 256,
       x[2] \div 65536, (x[2] \div 256) % 256, x[2] % 256,
       x[3] \div 65536, (x[3] \div 256) % 256, x[3] % 256 >>

NanoBytes(x) == <<x[2], x[3] \div 65536, (x[3] \div 256) % 256, x[3] % 256>>

\* the ways a caller's text is malformed (0: it is not)
TextFaults == 0 .. 9

BadText(w, k) ==
    CASE k = 0 -> w
      [] k = 1 -> Tail(w)                                \* no '@'
      [] k = 2 -> Tail(w) \o <<49>>                      \* no '@', right length
      [] k = 3 -> SubSeq(w, 1, Len(w) - 1)               \* too short
      [] k = 4 -> w \o <<49>>                            \* too long
      [] k = 5 -> [w EXCEPT ![1] = 35]                   \* '#' for '@'
      [] k = 6 -> [w EXCEPT ![2] = 71]                   \* 'G' in the seconds
      [] k = 7 -> [w EXCEPT ![3] = 120]                  \* 'x' in the seconds
      [] k = 8 -> [w EXCEPT ![17] = 43]                  \* '+' ends the seconds
      [] k = 9 -> [w EXCEPT ![Len(w)] = 95]              \* '_' ends the text

\* the ways a caller's bytes are malformed (0: they are not)
ByteFaults == 0 .. 2

BadBytes(w, k) ==
    CASE k = 0 -> w
      [] k = 1 -> SubSeq(w, 1, Len(w) - 1)               \* too short
      [] k = 2 -> w \o <<0>>                             \* too long

\* the secs arguments of the direct calls of EpochTime
EpochPoints ==
    { Zero, FromInt(10), FromInt(-1), Two62, Sub(Two62, FromInt(10)), Neg(Two62),
      Sub(ZeroLabel, Two62), MinInt64, Add(MinInt64, FromInt(9)),
      Add(MinInt64, FromInt(10)), MaxInt64,
      <<32767, 16773512, 7211298>>,      \* 2^63 - 62135596766
      <<32767, 16773512, 7211299>> }

EpochSecs ==
    UNION { Around(FromInt(leapSeconds[i])) : i \in 1..Len(leapSeconds) } \cup EpochPoints

FarSecs ==
    { FromInt(leapSeconds[1] + 1), FromInt(leapSeconds[2]), FromInt(leapSeconds[13] + 1),
      FromInt(leapSeconds[25]), FromInt(leapSeconds[26] + 1), FromInt(leapSeconds[26]),
      Zero, Two62, MaxInt64, <<32767, 16773512, 7211299>> }

EpochNanos ==
    { Zero, FromInt(1), FromInt(999999999), FromInt(1000000000), FromInt(-1),
      FromInt(-1000000001), <<0, 255, Limb - 1>> }

InitCodec ==
    /\ \E n \in {8, 12}, x \in Labels, upper \in 0..2 :
         \E y \in (IF n = 12 THEN NanoFields ELSE {Zero}) :
           \E f \in {<<k, 0>> : k \in TextFaults} \cup {<<0, k>> : k \in ByteFaults} :
             /\ s = BadText(LabelText(x, upper)
                              \o (IF n = 12 THEN NanoText(y, upper) ELSE <<>>), f[1])
             /\ b = BadBytes(LabelBytes(x)
                              \o (IF n = 12 THEN NanoBytes(y) ELSE <<>>), f[2])
    /\ rPT64 = NoCall /\ rPT64n = NoCall /\ rDT64 = NoCall /\ rDT64n = NoCall
    /\ secsA = Zero /\ secsB = Zero /\ nsecs = Zero
    /\ rA = NoCall /\ rB = NoCall

InitEpoch ==
    /\ s = <<>> /\ b = <<>>
    /\ rPT64 = NoCall /\ rPT64n = NoCall /\ rDT64 = NoCall /\ rDT64n = NoCall
    /\ secsA \in EpochSecs
    /\ secsB \in {x \in {Add(secsA, FromInt(g)) : g \in 1..MaxGap} \cup FarSecs :
                    Leq(x, MaxInt64)}
    /\ nsecs \in EpochNanos
    /\ rA = NoCall /\ rB = NoCall

CallParseTai64 ==
    /\ rPT64 = NoCall
    /\ rPT64' = ParseTai64(s)
    /\ UNCHANGED <<s, b, rPT64n, rDT64, rDT64n, secsA, secsB, nsecs, rA, rB>>

CallParseTai64n ==
    /\ rPT64n = NoCall
    /\ rPT64n' = ParseTai64n(s)
    /\ UNCHANGED <<s, b, rPT64, rDT64, rDT64n, secsA, secsB, nsecs, rA, rB>>

CallDecodeTai64 ==
    /\ rDT64 = NoCall
    /\ rDT64' = DecodeTai64(b)
    /\ UNCHANGED <<s, b, rPT64, rPT64n, rDT64n, secsA, secsB, nsecs, rA, rB>>

CallDecodeTai64n ==
    /\ rDT64n = NoCall
    /\ rDT64n' = DecodeTai64n(b)
    /\ UNCHANGED <<s, b, rPT64, rPT64n, rDT64, secsA, secsB, nsecs, rA, rB>>

CallEpochTimeA ==
    /\ rA = NoCall
    /\ rA' = [t |-> EpochTime(secsA, nsecs), err |-> nil]
    /\ UNCHANGED <<s, b, rPT64, rPT64n, rDT64, rDT64n, secsA, secsB, nsecs, rB>>

CallEpochTimeB ==
    /\ rB = NoCall
    /\ rB' = [t |-> EpochTime(secsB, nsecs), err |-> nil]
    /\ UNCHANGED <<s, b, rPT64, rPT64n, rDT64, rDT64n, secsA, secsB, nsecs, rA>>

NextCodec ==
    \/ CallParseTai64
    \/ CallParseTai64n
    \/ CallDecodeTai64
    \/ CallDecodeTai64n

NextEpoch ==
    \/ CallEpochTimeA
    \/ CallEpochTimeB

\* the four parse/decode entry points on one text and one byte sequence
SpecCodec == InitCodec /\ [][NextCodec]_vars

\* two direct calls of EpochTime
SpecEpoch == InitEpoch /\ [][NextEpoch]_vars

---------------------------------------------------------------------------
(* What the claims speak of: the value an input denotes, read off the      *)
(* input position by position.                                             *)

HexChars == (48..57) \cup (65..70) \cup (97..102)

HexValue(c) == IF c <= 57 THEN c - 48 ELSE IF c <= 70 THEN c - 55 ELSE c - 87

\* the number that at most six hexadecimal digits denote
RECURSIVE HexNumber(_)
HexNumber(w) ==
    IF w = <<>> THEN 0
    ELSE 16 * HexNumber(SubSeq(w, 1, Len(w) - 1)) + HexValue(w[Len(w)])

\* '@' followed by n - 1 hexadecimal digits
WellFormedText(w, n) ==
    Len(w) = n /\ w[1] = 64 /\ \A i \in 2..n : w[i] \in HexChars

SecondsOfText(w) ==
    <<HexNumber(SubSeq(w, 2, 5)), HexNumber(SubSeq(w, 6, 11)), HexNumber(SubSeq(w, 12, 17))>>

NanosOfText(w) == <<0, HexNumber(SubSeq(w, 18, 19)), HexNumber(SubSeq(w, 20, 25))>>

\* the bytes that the hexadecimal digits of a text denote, two digits a byte
BytesOfText(w) ==
    [i \in 1..((Len(w) - 1) \div 2) |-> 16 * HexValue(w[2 * i]) + HexValue(w[2 * i + 1])]

Times(x, k) == Norm(k * x[1], k * x[2], k * x[3])

\* the big-endian number that a sequence of bytes denotes
RECURSIVE BytesNumber(_)
BytesNumber(x) ==
    IF x = <<>> THEN Zero
    ELSE Add(Times(Times(BytesNumber(SubSeq(x, 1, Len(x) - 1)), 16), 16),
             FromInt(x[Len(x)]))

SecondsOfBytes(x) == BytesNumber(SubSeq(x, 1, 8))

NanosOfBytes(x) == BytesNumber(SubSeq(x, 9, 12))

Called(r) == r # NoCall

Billion(x) == Times(Times(Times(Times(Times(x, 100), 100), 100), 100), 10)

InInt64(x) == Leq(MinInt64, x) /\ Leq(x, MaxInt64)

\* t is the instant secs seconds and ns nanoseconds after the Unix epoch, the
\* seconds counted in 64 bits
IsInstant(t, secs, ns) ==
    LET q == ToInt64(Sub(UnixSeconds(t), secs))
    IN  /\ 0 <= t.wall /\ t.wall < 1000000000
        /\ Add(Billion(q), FromInt(t.wall)) = ns

TimeBefore(t, u) == Less(t.ext, u.ext) \/ (t.ext = u.ext /\ t.wall < u.wall)

\* the table entries at or before secs
AtOrBefore(secs) == {i \in 1..Len(leapSeconds) : Leq(FromInt(leapSeconds[i]), secs)}

\* the table entries strictly before secs, the oldest entry left out
NewerBelow(secs) ==
    {i \in 1..(Len(leapSeconds) - 1) : Less(FromInt(leapSeconds[i]), secs)}

\* the table entries l with x <= l < y
Crossed(x, y) ==
    {i \in 1..Len(leapSeconds) :
        Leq(x, FromInt(leapSeconds[i])) /\ Less(FromInt(leapSeconds[i]), y)}

\* the seconds the parse/decode entry points hand to EpochTime: -2^62 .. 2^62
RawSeconds(x) == Leq(Neg(Two62), x) /\ Leq(x, Two62)

\* the whole seconds in ns nanoseconds, rounded down
FloorBillion(ns) ==
    IF Less(ns, Zero)
    THEN Neg(DivBillion(Add(Neg(ns), FromInt(999999999))).q)
    ELSE DivBillion(ns).q

\* the 64-bit second counts of EpochTime(secs, ns) do not wrap
Unwrapped(secs, ns) ==
    LET m == Add(Sub(secs, FromInt(10 + Cardinality(NewerBelow(secs)))), FloorBillion(ns))
    IN  InInt64(m) /\ InInt64(Add(m, unixToInternal))

---------------------------------------------------------------------------
(* The claims, under SpecCodec.                                            *)

Success(secs, ns) == [t |-> EpochTime(secs, ns), err |-> nil]

\* C1: a well-formed input whose seconds field is below 2^63 is decoded without
\* error, by each of the four entry points, to EpochTime(seconds - 2^62, nsec):
\* nsec is 0 for the TAI64 forms and the 32-bit nanosecond field, unchanged and
\* whatever its value, for the TAI64N forms.
C1_Decodes ==
    /\ (Called(rPT64) /\ WellFormedText(s, 17) /\ Less(SecondsOfText(s), Two63))
          => rPT64 = Success(Sub(SecondsOfText(s), Two62), Zero)
    /\ (Called(rPT64n) /\ WellFormedText(s, 25) /\ Less(SecondsOfText(s), Two63))
          => rPT64n = Success(Sub(SecondsOfText(s), Two62), NanosOfText(s))
    /\ (Called(rDT64) /\ Len(b) = 8 /\ Less(SecondsOfBytes(b), Two63))
          => rDT64 = Success(Sub(SecondsOfBytes(b), Two62), Zero)
    /\ (Called(rDT64n) /\ Len(b) = 12 /\ Less(SecondsOfBytes(b), Two63))
          => rDT64n = Success(Sub(SecondsOfBytes(b), Two62), NanosOfBytes(b))

\* ParseTai64n and DecodeTai64n have both decoded a label before 1970 TAI whose
\* nanosecond field is 10^9 or more
C1_Witness ==
    /\ Called(rPT64n) /\ rPT64n.err = nil /\ WellFormedText(s, 25)
    /\ Called(rDT64n) /\ rDT64n.err = nil /\ Len(b) = 12
    /\ Less(SecondsOfText(s), Two62) /\ Less(SecondsOfBytes(b), Two62)
    /\ ~Less(NanosOfText(s), FromInt(1000000000))
    /\ ~Less(NanosOfBytes(b), FromInt(1000000000))

\* C3: every entry point answers an input whose seconds field is 2^63 or more,
\* 2^63 itself included, with parseError and the zero time.
C3_RejectsFrom2To63 ==
    /\ (Called(rPT64) /\ WellFormedText(s, 17) /\ ~Less(SecondsOfText(s), Two63))
          => rPT64 = Failure
    /\ (Called(rPT64n) /\ WellFormedText(s, 25) /\ ~Less(SecondsOfText(s), Two63))
          => rPT64n = Failure
    /\ (Called(rDT64) /\ Len(b) = 8 /\ ~Less(SecondsOfBytes(b), Two63))
          => rDT64 = Failure
    /\ (Called(rDT64n) /\ Len(b) = 12 /\ ~Less(SecondsOfBytes(b), Two63))
          => rDT64n = Failure

\* C4: a text of the wrong length, without the '@', or with a character that is
\* no hexadecimal digit, and a byte sequence of the wrong length, are answered
\* with parseError and the zero time.Time; no failing call returns anything else.
C4_RejectsMalformed ==
    /\ (Called(rPT64) /\ ~WellFormedText(s, 17)) => rPT64 = Failure
    /\ (Called(rPT64n) /\ ~WellFormedText(s, 25)) => rPT64n = Failure
    /\ (Called(rDT64) /\ Len(b) # 8) => rDT64 = Failure
    /\ (Called(rDT64n) /\ Len(b) # 12) => rDT64n = Failure
    /\ \A r \in {rPT64, rPT64n, rDT64, rDT64n} :
          (Called(r) /\ r.err # nil) => r = Failure

\* ParseTai64n has rejected a text of the right length whose seconds field is
\* hexadecimal and whose nanosecond field is not
C4_Witness ==
    /\ Called(rPT64n) /\ rPT64n = Failure
    /\ Len(s) = 25 /\ s[1] = 64
    /\ \A i \in 2..17 : s[i] \in HexChars
    /\ s[25] \notin HexChars

DenotesZeroTime(sec, ns) ==
    \E k \in 0..4 : ns = Billion(FromInt(k)) /\ Add(sec, FromInt(k)) = ZeroLabel

C8_HexAndBinaryAgree ==
    /\ (Called(rPT64n) /\ Called(rDT64n) /\ WellFormedText(s, 25) /\ b = BytesOfText(s))
          => rPT64n = rDT64n
    /\ (Called(rPT64) /\ Called(rDT64) /\ WellFormedText(s, 17) /\ b = BytesOfText(s))
          => rPT64 = rDT64

\* both TAI64N entry points have decoded the same label, written with letters
\* of both cases
C8_Witness ==
    /\ Called(rPT64n) /\ Called(rDT64n) /\ WellFormedText(s, 25) /\ b = BytesOfText(s)
    /\ rPT64n.err = nil /\ rDT64n.err = nil
    /\ \E i \in 2..25 : s[i] \in 65..70
    /\ \E i \in 2..25 : s[i] \in 97..102

\* the 64-bit steps on an accepted seconds field: the biased value is the
\* mathematical difference, and EpochTime's subtraction stays in range
NoWraparound(sec) ==
    /\ Bias(sec) = Sub(sec, Two62)
    /\ 10 <= EpochOffset(Bias(sec)) /\ EpochOffset(Bias(sec)) <= 35
    /\ InInt64(Sub(Bias(sec), FromInt(EpochOffset(Bias(sec)))))

\* C9: for every seconds field an entry point accepts, int64(sec - 2^62) is the
\* mathematical value sec - 2^62, also below 2^62, the offset EpochTime ends
\* with is between 10 and 35, and secs - offset is inside the int64 range.
C9_NoWraparound ==
    /\ (Called(rPT64) /\ rPT64.err = nil) => NoWraparound(SecondsOfText(s))
    /\ (Called(rPT64n) /\ rPT64n.err = nil) => NoWraparound(SecondsOfText(s))
    /\ (Called(rDT64) /\ rDT64.err = nil) => NoWraparound(SecondsOfBytes(b))
    /\ (Called(rDT64n) /\ rDT64n.err = nil) => NoWraparound(SecondsOfBytes(b))

\* DecodeTai64 and ParseTai64 have accepted a label below 2^62
C9_Witness ==
    /\ Called(rDT64) /\ rDT64.err = nil /\ Less(SecondsOfBytes(b), Two62)
    /\ Called(rPT64) /\ rPT64.err = nil

---------------------------------------------------------------------------
(* The claims, under SpecEpoch.                                            *)

\* the seconds between two results
Gap == Sub(UnixSeconds(rB.t), UnixSeconds(rA.t))

BothCalled == Called(rA) /\ Called(rB)

\* C2: EpochTime returns the instant secs - offset seconds and nsecs nanoseconds
\* after the Unix epoch, offset being 10 plus the number of table entries at or
\* before secs.
C2_CountsAtOrBefore ==
    /\ Called(rA) =>
          IsInstant(rA.t, Sub(secsA, FromInt(10 + Cardinality(AtOrBefore(secsA)))), nsecs)
    /\ Called(rB) =>
          IsInstant(rB.t, Sub(secsB, FromInt(10 + Cardinality(AtOrBefore(secsB)))), nsecs)

\* C2 (amended): EpochTime returns the instant secs - offset seconds and nsecs
\* nanoseconds after the Unix epoch (the seconds counted in 64 bits), offset
\* being 10 plus the number of table entries, the oldest one left out, that are
\* strictly before secs.
C2_CountsNewerBelow ==
    /\ Called(rA) =>
          IsInstant(rA.t, Sub(secsA, FromInt(10 + Cardinality(NewerBelow(secsA)))), nsecs)
    /\ Called(rB) =>
          IsInstant(rB.t, Sub(secsB, FromInt(10 + Cardinality(NewerBelow(secsB)))), nsecs)

\* EpochTime has converted the newest table entry itself, with a second or more
\* of nanoseconds
C2_Witness ==
    /\ Called(rA) /\ secsA = FromInt(leapSeconds[1])
    /\ ~Less(nsecs, FromInt(1000000000))

\* C5: EpochTime(2^62 - 10, 0) is the Unix epoch.
C5_BiasedEpoch ==
    (Called(rA) /\ secsA = Sub(Two62, FromInt(10)) /\ nsecs = Zero)
        => (UnixSeconds(rA.t) = Zero /\ rA.t.wall = 0)

\* C5 (amended): EpochTime(10, 0) is the Unix epoch; EpochTime(2^62 - 10, 0) is
\* 2^62 - 45 seconds after it.
C5_TenIsEpoch ==
    /\ (Called(rA) /\ secsA = FromInt(10) /\ nsecs = Zero)
          => (UnixSeconds(rA.t) = Zero /\ rA.t.wall = 0)
    /\ (Called(rA) /\ secsA = Sub(Two62, FromInt(10)) /\ nsecs = Zero)
          => (UnixSeconds(rA.t) = Sub(Two62, FromInt(45)) /\ rA.t.wall = 0)

\* EpochTime(10, 0) has returned
C5_Witness == Called(rA) /\ secsA = FromInt(10) /\ nsecs = Zero

\* C6: for raw seconds a < b and the same nanoseconds, with no table entry
\* crossed EpochTime(a) is before EpochTime(b) and the results are b - a apart;
\* with one entry crossed they are b - a + 1 apart.
C6_GapGrows ==
    (BothCalled /\ RawSeconds(secsA) /\ RawSeconds(secsB) /\ Less(secsA, secsB)) =>
        /\ Crossed(secsA, secsB) = {} =>
              (TimeBefore(rA.t, rB.t) /\ Gap = Sub(secsB, secsA) /\ rA.t.wall = rB.t.wall)
        /\ Cardinality(Crossed(secsA, secsB)) = 1 =>
              (Gap = Add(Sub(secsB, secsA), FromInt(1)) /\ rA.t.wall = rB.t.wall)

\* C6 (amended): for raw seconds a < b and the same nanoseconds, the results are
\* b - a seconds apart less one second for every table entry l, the oldest left
\* out, with a <= l < b; with no such entry EpochTime(a) is before EpochTime(b).
C6_GapShrinks ==
    (BothCalled /\ RawSeconds(secsA) /\ RawSeconds(secsB) /\ Less(secsA, secsB)) =>
        LET k == Cardinality(Crossed(secsA, secsB) \ {Len(leapSeconds)})
        IN  /\ Gap = Sub(Sub(secsB, secsA), FromInt(k))
            /\ rA.t.wall = rB.t.wall
            /\ k = 0 => TimeBefore(rA.t, rB.t)

\* two calls on either side of exactly one table entry, not the oldest
C6_Witness ==
    /\ BothCalled /\ RawSeconds(secsA) /\ RawSeconds(secsB) /\ Less(secsA, secsB)
    /\ Cardinality(Crossed(secsA, secsB)) = 1
    /\ Len(leapSeconds) \notin Crossed(secsA, secsB)
    /\ Less(FromInt(2), Sub(secsB, secsA))

\* s is a table entry other than the oldest
RepeatedSecond(x) == \E i \in 1..(Len(leapSeconds) - 1) : x = FromInt(leapSeconds[i])

\* EpochTime(a) is not after EpochTime(b), and for b = a + 1 the results are the
\* same at a table entry other than the oldest and one second apart elsewhere
NeverBackwards ==
    /\ ~TimeBefore(rB.t, rA.t)
    /\ secsB = Add(secsA, FromInt(1)) =>
          /\ rA.t.wall = rB.t.wall
          /\ Gap = (IF RepeatedSecond(secsA) THEN Zero ELSE FromInt(1))

\* C10: for all secs a < b and equal nsecs EpochTime(a) <= EpochTime(b), and
\* EpochTime(s + 1) - EpochTime(s) is 0 seconds when s is a table entry other
\* than the oldest and 1 second for every other s.
C10_NeverBackwards ==
    (BothCalled /\ Less(secsA, secsB)) => NeverBackwards

\* C10 (amended): the same, for the secs and nsecs whose 64-bit second counts
\* do not wrap: -2^63 <= secs - offset + floor(nsecs / 10^9) < 2^63 - 62135596800.
C10_NeverBackwardsUnwrapped ==
    (BothCalled /\ Less(secsA, secsB)
       /\ Unwrapped(secsA, nsecs) /\ Unwrapped(secsB, nsecs)) => NeverBackwards

\* the newest table entry and the second after it have been converted to the
\* same time
C10_Witness ==
    /\ BothCalled /\ secsA = FromInt(leapSeconds[1]) /\ secsB = Add(secsA, FromInt(1))
    /\ Unwrapped(secsA, nsecs) /\ Unwrapped(secsB, nsecs)
    /\ rA.t = rB.t

=============================================================================
